---- MODULE Spec2Model ----
(***************************************************************************)
(* CProperty / CUnknownProperty of Source/csav/csystem/CPropertyBase.hpp:  *)
(* one property object, its listener set, the skippable flag, and the raw  *)
(* byte buffer of the Unknown variant, driven by the public operations     *)
(* serialize_in, serialize_out, imgui_widget, add_listener and             *)
(* remove_listener.  The std::istream / std::ostream the operations are    *)
(* handed are modelled by what the member functions used by the code do    *)
(* (tellg, seekg, read, good, write), stream faults included.              *)
(*                                                                         *)
(* Assumptions on the callers, both stated by the source or the spec:      *)
(*  - the property is owned by a shared_ptr (it derives from               *)
(*    enable_shared_from_this and hands shared_from_this() to listeners);  *)
(*  - registered listener pointers are valid objects, and a callback does  *)
(*    not start another mutating call on the same property (spec, sec. 5). *)
(*    A callback may call add_listener / remove_listener and read the      *)
(*    property.                                                            *)
(***************************************************************************)
EXTENDS Integers, Sequences, FiniteSets, TLC

\* ---------------------------------------------------------------- bounds
MaxLen == 2
NumListeners == 2

ByteVals == {0, 255}
Listeners == 1..NumListeners
TypeNames == {"gameUnknownType"}
StateBits == {"eof", "fail", "bad"}

Bufs == UNION {[1..n -> ByteVals] : n \in 0..MaxLen}

Min2(a, b) == IF a <= b THEN a ELSE b

MinOf(S) == CHOOSE x \in S : \A y \in S : x <= y

\* ------------------------------------------------------- std::istream
\* An input stream: the bytes of its (bounded) region, the get position,
\* the iostate bits, whether the stream buffer can seek, and how many bytes
\* the stream buffer is able to deliver to one read (lim < remaining models a
\* short read).
Remaining(s) == SubSeq(s.buf, s.pos + 1, Len(s.buf))

\* std::ios::good()
good(s) == s.bits = {}

\* std::ios::fail()
fail(s) == s.bits \cap {"fail", "bad"} # {}

\* istream::sentry(is, noskipws = true): sets failbit unless good()
sentry(s) == IF good(s) THEN s ELSE [s EXCEPT !.bits = @ \cup {"fail"}]

\* is.tellg(): the position, or -1 when fail() or the buffer cannot seek
tellg(s) ==
  LET t == sentry(s)
  IN  [is |-> t, pos |-> IF fail(t) \/ ~t.seekable THEN -1 ELSE t.pos]

\* is.seekg(0, std::ios_base::end): clears eofbit, then seeks unless fail()
seekg_end(s) ==
  LET t == sentry([s EXCEPT !.bits = @ \ {"eof"}])
  IN  IF fail(t) THEN t
      ELSE IF ~t.seekable THEN [t EXCEPT !.bits = @ \cup {"fail"}]
      ELSE [t EXCEPT !.pos = Len(t.buf)]

\* is.seekg(pos): clears eofbit, then seeks unless fail(); a position outside
\* the region (pos_type(-1) included) sets failbit
seekg(s, p) ==
  LET t == sentry([s EXCEPT !.bits = @ \ {"eof"}])
  IN  IF fail(t) THEN t
      ELSE IF ~t.seekable \/ p < 0 \/ p > Len(t.buf)
           THEN [t EXCEPT !.bits = @ \cup {"fail"}]
      ELSE [t EXCEPT !.pos = p]

\* is.read(dst, n): extracts up to n bytes; fewer than n sets eofbit|failbit
read(s, n) ==
  LET t == sentry(s)
  IN  IF ~good(s) THEN [is |-> t, got |-> << >>]
      ELSE LET k == Min2(n, Min2(Len(t.buf) - t.pos, t.lim))
           IN  [is  |-> [t EXCEPT !.pos = @ + k,
                                  !.bits = IF k # n THEN {"eof", "fail"} ELSE {}],
                got |-> SubSeq(t.buf, t.pos + 1, t.pos + k)]

\* std::vector<char>::resize(n): keeps the first n elements, zero-fills
resize(v, n) == [i \in 1..n |-> IF i <= Len(v) THEN v[i] ELSE 0]

\* the bytes read land at the front of the buffer handed to read()
store(v, got) == [i \in 1..Len(v) |-> IF i <= Len(got) THEN got[i] ELSE v[i]]

\* ------------------------------------------------------- std::ostream
\* os.write(src, n): nothing is written unless good(); the sentry adds
\* failbit only when badbit is set, eofbit or failbit alone stay as they are;
\* a short write sets badbit
write(o, v) ==
  IF o.bits # {}
  THEN IF "bad" \in o.bits THEN [o EXCEPT !.bits = @ \cup {"fail"}] ELSE o
  ELSE LET k == Min2(Len(v), o.lim)
       IN  [o EXCEPT !.buf = @ \o SubSeq(v, 1, k),
                     !.bits = IF k # Len(v) THEN {"bad"} ELSE {}]

\* ------------------------------------------------- CUnknownProperty
\* serialize_in_impl without the is.seekg(beg) that returns to the start
serialize_in_impl_noseek(data, s) ==
  LET t1   == tellg(s)
      beg  == t1.pos
      s2   == seekg_end(t1.is)
      t3   == tellg(s2)
      size == t3.pos - beg
      r    == read(t3.is, size)
  IN  [data |-> store(resize(data, size), r.got),
       is   |-> r.is,
       ok   |-> good(r.is)]

\* CUnknownProperty::serialize_in_impl: measures the rest of the region,
\* seeks back, resizes m_data to that size and reads into it.
\* (end - beg is never negative: tellg yields -1 for both or for neither.)
serialize_in_impl(data, s) ==
  LET t1   == tellg(s)
      beg  == t1.pos
      s2   == seekg_end(t1.is)
      t3   == tellg(s2)
      size == t3.pos - beg
      s4   == seekg(t3.is, beg)
      r    == read(s4, size)
  IN  [data |-> store(resize(data, size), r.got),
       is   |-> r.is,
       ok   |-> good(r.is)]

\* serialize_out writing one byte less than m_data.size()
serialize_out_short(data, o) ==
  [data |-> data, os |-> write(o, SubSeq(data, 1, Len(data) - 1)), ret |-> TRUE]

\* serialize_out that hands its buffer over and leaves m_data empty
serialize_out_consumes(data, o) ==
  [data |-> << >>, os |-> write(o, data), ret |-> TRUE]

\* CUnknownProperty::serialize_out: writes m_data, returns true
serialize_out(data, o) ==
  [data |-> data, os |-> write(o, data), ret |-> TRUE]

\* CUnknownProperty::imgui_widget_impl returns false on both of its paths.
\* With DISABLE_CP_IMGUI_WIDGETS it is not compiled and the base class
\* implementation, whose body is then empty, flows off the end of a function
\* returning bool: undefined behaviour, any value.
imgui_widget_impl_results(widgets) == IF widgets THEN {FALSE} ELSE BOOLEAN

\* post_cproperty_event, after the loop: data_modified clears the flag
skippable_after_post(evt, cur) == IF evt = "data_modified" THEN FALSE ELSE cur

\* std::set<CPropertyListener*>::insert / erase
set_insert(S, l) == S \cup {l}

set_erase(S, l) == S \ {l}

\* ----------------------------------------------------------------- inputs
\* A fault-free stream is good(), seekable, and delivers every byte asked for.
FaultFree(s) == s.bits = {} /\ s.seekable /\ s.lim >= Len(s.buf) - s.pos

\* Streams handed to serialize_in: any content and position; fault-free, or
\* with one fault (iostate already set, unseekable buffer, short read).
InStreams ==
  {s \in [buf : Bufs, pos : 0..MaxLen, bits : SUBSET StateBits,
          seekable : BOOLEAN, lim : 0..MaxLen] :
     /\ s.pos <= Len(s.buf)
     /\ s.lim = MaxLen \/ s.lim < Len(s.buf) - s.pos
     /\ s.bits \in {{}, {"eof"}, {"fail"}, {"bad"}, {"eof", "fail"}}
     /\ \/ FaultFree(s)
        \/ s.bits # {} /\ s.seekable /\ s.lim = MaxLen
        \/ s.bits = {} /\ ~s.seekable /\ s.lim = MaxLen
        \/ s.bits = {} /\ s.seekable /\ s.lim < Len(s.buf) - s.pos}

\* Streams handed to serialize_out: empty, fault-free or with one fault
\* (iostate already set, or a device that takes fewer bytes than asked)
OutStreams ==
  {o \in [buf : {<< >>}, bits : SUBSET StateBits, lim : 0..MaxLen] :
     /\ o.bits \in {{}, {"eof"}, {"fail"}, {"bad"}}
     /\ o.bits # {} => o.lim = MaxLen}

\* ... of which those that behave differently for the data v
OutStreamsFor(v) == {o \in OutStreams : o.lim = MaxLen \/ o.lim < Len(v)}

\* The streams of the specification that explores the listeners: two bytes,
\* read from the start, without fault or from a stream whose badbit is set
SampleIn ==
  {s \in InStreams : s.buf = <<255, 0>> /\ s.pos = 0 /\ s.seekable
                     /\ s.lim = MaxLen /\ s.bits \in {{}, {"bad"}}}

\* the contents m_data can have after a load from a sample stream
SampleData == {<< >>} \cup {s.buf : s \in SampleIn}

\* The states another CUnknownProperty can be in: its flag is true (fresh, or
\* loaded by serialize_in_impl alone) or false, with any listeners and data
Others ==
  [kind : {"Unknown"}, ctypename : TypeNames, skippable : BOOLEAN,
   listeners : SUBSET Listeners, data : SampleData]

\* the write of v to o meets no fault
CleanWrite(o, v) == o.bits = {} /\ o.lim >= Len(v)

NoIn == [buf |-> << >>, pos |-> 0, bits |-> {}, seekable |-> TRUE, lim |-> MaxLen]

NoOut == [buf |-> << >>, bits |-> {}, lim |-> MaxLen]

\* what a callback does besides reading the property
CallbackActs ==
  {[op |-> "none", l |-> 0]} \cup
  {[op |-> o, l |-> l] : o \in {"add_listener", "remove_listener"}, l \in Listeners}

\* ------------------------------------------------------------------ state
VARIABLES
  m_property_kind,        \* CProperty::m_property_kind
  m_ctypename,            \* CUnknownProperty::m_ctypename
  m_is_skippable_in_ser,  \* CProperty::m_is_skippable_in_ser
  m_listeners,            \* CProperty::m_listeners
  m_data,                 \* CUnknownProperty::m_data
  widgets,                \* build: FALSE when DISABLE_CP_IMGUI_WIDGETS is defined
  pc,                     \* "idle", or the position inside a mutating call
  call,                   \* the public operation running or last completed
  ok,                     \* local `ok` of serialize_in / `modified` of imgui_widget
  ret,                    \* value returned by the last completed call
  listeners,              \* local copy `listeners` of post_cproperty_event
                          \*   (empty outside of it)
  todo,                   \* what is left of the loop over `listeners`
  delivered,              \* per listener: callbacks received in the current call
  observed,               \* per listener: is_skippable_in_serialization() as read
                          \*   inside its callback
  registered,             \* m_listeners when the current call started
  cbChanged,              \* a callback of the current call changed m_listeners
  inp,                    \* the stream as handed to the last serialize_in
  is,                     \* that stream after the call
  out,                    \* the last serialize_out since the last mutation:
                          \*   the stream after the call, and whether it met a fault
  sinceLoad,              \* "none", "loading", "loaded", "mutated", or "impl" /
                          \*   "assigned" after a direct serialize_in_impl / an
                          \*   assignment, "copied" in a copy-constructed property
  subscribed,             \* the listeners added (or taken over by an assignment)
                          \*   and not removed since
  calledRemoved,          \* a callback of the current call went to a listener
                          \*   that an earlier callback had removed
  rq                      \* an integer_range, the last subrange query on it and
                          \*   its results

vars == <<m_property_kind, m_ctypename, m_is_skippable_in_ser, m_listeners,
          m_data, widgets, pc, call, ok, ret, listeners, todo, delivered,
          observed, registered, cbChanged, inp, is, out, sinceLoad, subscribed,
          calledRemoved, rq>>

object == <<m_property_kind, m_ctypename, m_is_skippable_in_ser, m_listeners, m_data>>

B2S(b) == IF b THEN "true" ELSE "false"

NoneDelivered == [l \in Listeners |-> 0]

NoneObserved == [l \in Listeners |-> "none"]

NoOutYet == [n |-> 0, os |-> NoOut, clean |-> TRUE]

\* integer_range(): m_beg = 0, m_end = 0; no query yet
NoQuery == [beg |-> 0, end |-> 0, step |-> "range", offset |-> 0, count |-> 0,
            valid |-> FALSE, sub |-> [beg |-> 0, end |-> 0]]

\* what is on record of calls when a property has just been constructed
NoCallYet ==
  /\ pc = "idle"
  /\ ok = FALSE
  /\ ret = FALSE
  /\ listeners = {}
  /\ todo = {}
  /\ delivered = NoneDelivered
  /\ observed = NoneObserved
  /\ registered = {}
  /\ cbChanged = FALSE
  /\ inp = NoIn
  /\ is = NoIn
  /\ out = NoOutYet
  /\ calledRemoved = FALSE
  /\ rq = NoQuery

\* CUnknownProperty(ctypename): kind Unknown, skippable, no listener, no data
Construct ==
  /\ m_property_kind = "Unknown"
  /\ m_ctypename \in TypeNames
  /\ m_is_skippable_in_ser = TRUE
  /\ m_listeners = {}
  /\ m_data = << >>
  /\ widgets \in BOOLEAN
  /\ call = "ctor"
  /\ sinceLoad = "none"
  /\ subscribed = {}
  /\ NoCallYet

\* CUnknownProperty(const CUnknownProperty&), implicitly declared: every data
\* member is copy-constructed from the other property, so the new property
\* starts with that property's flag, listener set and data
CopyConstruct(b) ==
  /\ m_property_kind = b.kind
  /\ m_ctypename = b.ctypename
  /\ m_is_skippable_in_ser = b.skippable
  /\ m_listeners = b.listeners
  /\ m_data = b.data
  /\ widgets \in BOOLEAN
  /\ call = "ctor_copy"
  /\ sinceLoad = "copied"
  /\ subscribed = b.listeners
  /\ NoCallYet

\* a property just constructed, by either constructor
Init == Construct \/ \E b \in Others : CopyConstruct(b)

\* serialize_in that posts only after a successful load
posts_after_serialize_in_ok(implOk) == implOk

\* serialize_in posts data_modified whatever serialize_in_impl returned
posts_after_serialize_in(implOk) == TRUE

\* serialize_in that marks a successfully loaded property skippable again
skippable_after_impl_reset(implOk, cur) == IF implOk THEN TRUE ELSE cur

\* serialize_in leaves the flag alone until it posts the event
skippable_after_impl(implOk, cur) == cur

\* imgui_widget posts data_modified when imgui_widget_impl returned true
posts_after_imgui_widget(modified) == modified

\* a mutating call starts: the per-call records are reset
BeginCall(name) ==
  /\ call' = name
  /\ delivered' = NoneDelivered
  /\ observed' = NoneObserved
  /\ registered' = m_listeners
  /\ cbChanged' = FALSE
  /\ calledRemoved' = FALSE

\* CProperty::serialize_in, up to the call of post_cproperty_event
SerializeIn(s) ==
  /\ pc = "idle"
  /\ LET r == serialize_in_impl(m_data, s)
     IN  /\ m_data' = r.data
         /\ is' = r.is
         /\ ok' = r.ok
         /\ m_is_skippable_in_ser' = skippable_after_impl(r.ok, m_is_skippable_in_ser)
         /\ IF posts_after_serialize_in(r.ok)
            THEN pc' = "post_begin" /\ ret' = ret /\ sinceLoad' = "loading"
            ELSE pc' = "idle" /\ ret' = r.ok /\ sinceLoad' = "loaded"
  /\ inp' = s
  /\ out' = NoOutYet
  /\ BeginCall("serialize_in")
  /\ UNCHANGED <<m_property_kind, m_ctypename, m_listeners, widgets, listeners,
                 todo, subscribed, rq>>

\* CUnknownProperty::serialize_in_impl called by itself: the override is
\* declared in the public section of CUnknownProperty.  It loads m_data and
\* returns is.good(); no event is posted and the flag is not touched.
SerializeInImpl(s) ==
  /\ pc = "idle"
  /\ LET r == serialize_in_impl(m_data, s)
     IN  /\ m_data' = r.data
         /\ is' = r.is
         /\ ok' = r.ok
         /\ ret' = r.ok
  /\ inp' = s
  /\ out' = NoOutYet
  /\ sinceLoad' = "impl"
  /\ BeginCall("serialize_in_impl")
  /\ UNCHANGED <<m_property_kind, m_ctypename, m_is_skippable_in_ser, m_listeners,
                 widgets, pc, listeners, todo, subscribed, rq>>

\* CUnknownProperty::operator=(const CUnknownProperty&), implicitly declared:
\* every data member of CProperty and CUnknownProperty is copied from the
\* other property, the flag and the listener set included; no event is posted.
\* (The records of the last load and of the last result start afresh.)
CopyAssign(b) ==
  /\ pc = "idle"
  /\ m_property_kind' = b.kind
  /\ m_is_skippable_in_ser' = b.skippable
  /\ m_listeners' = b.listeners
  /\ m_ctypename' = b.ctypename
  /\ m_data' = b.data
  /\ subscribed' = b.listeners
  /\ inp' = NoIn
  /\ is' = NoIn
  /\ ok' = FALSE
  /\ ret' = FALSE
  /\ out' = NoOutYet
  /\ sinceLoad' = "assigned"
  /\ BeginCall("operator=")
  /\ UNCHANGED <<widgets, pc, listeners, todo, rq>>

\* CProperty::imgui_widget(label, editable), up to post_cproperty_event
ImguiWidget(editable, modified) ==
  /\ pc = "idle"
  /\ modified \in imgui_widget_impl_results(widgets)
  /\ ok' = modified
  /\ IF posts_after_imgui_widget(modified)
     THEN pc' = "post_begin" /\ ret' = ret /\ out' = NoOutYet
     ELSE pc' = "idle" /\ ret' = modified /\ out' = out
  /\ BeginCall("imgui_widget")
  /\ UNCHANGED <<object, widgets, listeners, todo, inp, is, sinceLoad, subscribed, rq>>

\* post_cproperty_event: std::set<CPropertyListener*> listeners = m_listeners
PostBegin ==
  /\ pc = "post_begin"
  /\ listeners' = m_listeners
  /\ todo' = m_listeners
  /\ pc' = "post_loop"
  /\ UNCHANGED <<object, widgets, call, ok, ret, delivered, observed, registered,
                 cbChanged, inp, is, out, sinceLoad, subscribed, calledRemoved, rq>>

\* listeners still to call when the loop walks the live m_listeners instead
\* of a copy
loop_rest_live(rest, live, l) == {x \in live : x > l}

\* listeners still to call after l: the rest of the copy, whatever m_listeners
\* has become
loop_rest(rest, live, l) == rest \ {l}

\* post_cproperty_event: one iteration, l->on_cproperty_event(self, evt), in
\* the order of the set.  The callback reads the flag and may add or remove a
\* listener.
Callback(act) ==
  /\ pc = "post_loop"
  /\ todo # {}
  /\ m_listeners' = CASE act.op = "add_listener"    -> set_insert(m_listeners, act.l)
                      [] act.op = "remove_listener" -> set_erase(m_listeners, act.l)
                      [] OTHER                      -> m_listeners
  /\ LET l == MinOf(todo)
     IN  /\ todo' = loop_rest(todo, m_listeners', l)
         /\ calledRemoved' = (calledRemoved \/ l \notin subscribed)
         /\ delivered' = [delivered EXCEPT ![l] = @ + 1]
         /\ observed' = [observed EXCEPT ![l] = B2S(m_is_skippable_in_ser)]
  /\ subscribed' = CASE act.op = "add_listener"    -> subscribed \cup {act.l}
                     [] act.op = "remove_listener" -> subscribed \ {act.l}
                     [] OTHER                      -> subscribed
  /\ cbChanged' = (cbChanged \/ subscribed' # subscribed)
  /\ UNCHANGED <<m_property_kind, m_ctypename, m_is_skippable_in_ser, m_data,
                 widgets, pc, call, ok, ret, listeners, registered, inp, is,
                 out, sinceLoad, rq>>

\* post_cproperty_event after the loop, and the return of the public call
PostEnd ==
  /\ pc = "post_loop"
  /\ todo = {}
  /\ m_is_skippable_in_ser' = skippable_after_post("data_modified", m_is_skippable_in_ser)
  /\ ret' = ok
  /\ pc' = "idle"
  /\ sinceLoad' = IF call = "serialize_in" THEN "loaded" ELSE "mutated"
  /\ listeners' = {}
  /\ UNCHANGED <<m_property_kind, m_ctypename, m_listeners, m_data, widgets, call,
                 ok, todo, delivered, observed, registered, cbChanged,
                 inp, is, out, subscribed, calledRemoved, rq>>

\* CUnknownProperty::serialize_out on an empty stream
SerializeOut(o) ==
  /\ pc = "idle"
  /\ LET r == serialize_out(m_data, o)
     IN  /\ m_data' = r.data
         /\ ret' = r.ret
         /\ out' = [n |-> Min2(out.n + 1, 2), os |-> r.os,
                    clean |-> CleanWrite(o, m_data)]
  /\ call' = "serialize_out"
  /\ UNCHANGED <<m_property_kind, m_ctypename, m_is_skippable_in_ser, m_listeners,
                 widgets, pc, ok, listeners, todo, delivered, observed, registered,
                 cbChanged, inp, is, sinceLoad, subscribed, calledRemoved, rq>>

\* add_listener that also counts as a modification of the property
AddListener_marks(l) ==
  /\ pc = "idle"
  /\ m_listeners' = set_insert(m_listeners, l)
  /\ subscribed' = subscribed \cup {l}
  /\ call' = "add_listener"
  /\ m_is_skippable_in_ser' = FALSE
  /\ UNCHANGED <<m_property_kind, m_ctypename, m_data,
                 widgets, pc, ok, ret, listeners, todo, delivered, observed,
                 registered, cbChanged, inp, is, out, sinceLoad, calledRemoved, rq>>

\* CProperty::add_listener
AddListener(l) ==
  /\ pc = "idle"
  /\ m_listeners' = set_insert(m_listeners, l)
  /\ subscribed' = subscribed \cup {l}
  /\ call' = "add_listener"
  /\ UNCHANGED <<m_property_kind, m_ctypename, m_is_skippable_in_ser, m_data,
                 widgets, pc, ok, ret, listeners, todo, delivered, observed,
                 registered, cbChanged, inp, is, out, sinceLoad, calledRemoved, rq>>

\* CProperty::remove_listener
RemoveListener(l) ==
  /\ pc = "idle"
  /\ m_listeners' = set_erase(m_listeners, l)
  /\ subscribed' = subscribed \ {l}
  /\ call' = "remove_listener"
  /\ UNCHANGED <<m_property_kind, m_ctypename, m_is_skippable_in_ser, m_data,
                 widgets, pc, ok, ret, listeners, todo, delivered, observed,
                 registered, cbChanged, inp, is, out, sinceLoad, calledRemoved, rq>>

\* Every operation and every listener behaviour, on the sample streams
Next ==
  \/ \E s \in SampleIn : SerializeIn(s)
  \/ \E e \in BOOLEAN, m \in BOOLEAN : ImguiWidget(e, m)
  \/ PostBegin
  \/ \E a \in CallbackActs : Callback(a)
  \/ PostEnd
  \/ \E o \in OutStreamsFor(m_data) : SerializeOut(o)
  \/ \E l \in Listeners : AddListener(l)
  \/ \E l \in Listeners : RemoveListener(l)
  \/ \E s \in SampleIn : SerializeInImpl(s)
  \/ \E b \in Others : CopyAssign(b)

Spec == Init /\ [][Next]_vars

\* Every stream, fault-free or faulty, on a property without listeners, in
\* the build with widgets (the build makes no difference to serialization)
InitIO == Init /\ widgets = TRUE /\ m_listeners = {}

NextIO ==
  \/ \E s \in InStreams : SerializeIn(s)
  \/ PostBegin
  \/ PostEnd
  \/ \E o \in OutStreamsFor(m_data) : SerializeOut(o)

SpecIO == InitIO /\ [][NextIO]_vars

TypeOK ==
  /\ m_property_kind = "Unknown"
  /\ m_ctypename \in TypeNames
  /\ m_is_skippable_in_ser \in BOOLEAN
  /\ m_listeners \subseteq Listeners
  /\ m_data \in Bufs
  /\ pc \in {"idle", "post_begin", "post_loop"}
  /\ todo \subseteq listeners

\* ------------------------------------------- integer_range (utils.hpp)
\* integer_range<T> over an unsigned integer type of Width bits
Width == 3

Modulus == 2 ^ Width

IntegerType == 0 .. Modulus - 1

\* conversion of an arithmetic result to integer_type
Wrap(x) == x % Modulus

\* integer_type(-1), the default of `count`
Sentinel == Modulus - 1

\* integer_range(): m_beg = 0, m_end = 0
range_default == [beg |-> 0, end |-> 0]

\* integer_range(beg, end): if end < beg then end = beg
integer_range(b, e) == [beg |-> b, end |-> IF e < b THEN b ELSE e]

\* integer_range::size
size(r) == Wrap(r.end - r.beg)

\* integer_range::subrange_unchecked
subrange_unchecked(r, offset, count) ==
  LET beg_index == Wrap(r.beg + offset)
      end_index == IF count = Sentinel THEN r.end
                   ELSE Wrap(r.beg + offset + count)
  IN  integer_range(beg_index, end_index)

\* integer_range::is_subrange
is_subrange(r, other) ==
  other.beg >= r.beg /\ other.beg <= other.end /\ other.end <= r.end

\* integer_range::is_valid_subrange
is_valid_subrange(r, offset, count) ==
  is_subrange(r, subrange_unchecked(r, offset, count))

\* integer_range::subrange
subrange(r, offset, count) ==
  LET sub == subrange_unchecked(r, offset, count)
  IN  IF ~is_subrange(r, sub) THEN range_default ELSE sub

property == <<m_property_kind, m_ctypename, m_is_skippable_in_ser, m_listeners,
              m_data, widgets, pc, call, ok, ret, listeners, todo, delivered,
              observed, registered, cbChanged, inp, is, out, sinceLoad,
              subscribed, calledRemoved>>

\* r = integer_range(b, e)
RangeCtor(b, e) ==
  /\ rq' = [NoQuery EXCEPT !.beg = integer_range(b, e).beg,
                           !.end = integer_range(b, e).end]
  /\ UNCHANGED property

\* r.is_valid_subrange(offset, count)
IsValidSubrange(offset, count) ==
  /\ rq' = [rq EXCEPT !.step = "checked", !.offset = offset, !.count = count,
                      !.valid = is_valid_subrange(rq, offset, count),
                      !.sub = range_default]
  /\ UNCHANGED property

\* r.subrange(offset, count), with the arguments of the check before it
Subrange ==
  /\ rq.step = "checked"
  /\ rq' = [rq EXCEPT !.step = "sliced",
                      !.sub = subrange(rq, rq.offset, rq.count)]
  /\ UNCHANGED property

InitRange == Construct /\ widgets = TRUE

NextRange ==
  \/ \E b \in IntegerType, e \in IntegerType : RangeCtor(b, e)
  \/ \E o \in IntegerType, c \in IntegerType : IsValidSubrange(o, c)
  \/ Subrange

SpecRange == InitRange /\ [][NextRange]_vars

\* ----------------------------------------------------------------- claims
\* the calls that post data_modified
Mutated == call = "serialize_in" \/ (call = "imgui_widget" /\ ok)

\* the calls that write the payload or report it modified
PayloadWritten == Mutated \/ call \in {"serialize_in_impl", "operator="}

Returned == pc = "idle"

\* C1: serialize_in on a fault-free stream whose remaining content is b,
\* followed with no mutation in between by serialize_out on an empty
\* fault-free stream, writes exactly b.
C1_RoundTrip ==
  (Returned /\ sinceLoad = "loaded" /\ out.n >= 1 /\ FaultFree(inp) /\ out.clean)
    => out.os.buf = Remaining(inp)

C1_Witness ==
  /\ Returned /\ sinceLoad = "loaded" /\ out.n >= 1 /\ FaultFree(inp) /\ out.clean
  /\ inp.pos = 0
  /\ Len(out.os.buf) = 2
  /\ out.os.buf[1] # out.os.buf[2]

\* C2: inside every on_cproperty_event callback for data_modified,
\* is_skippable_in_serialization() already reads false.
C2_ObservedNotSkippable == \A l \in Listeners : observed[l] # "true"

\* C3: the flag is true right after a property is constructed (from a type
\* name; a copy is constructed in the state of its source) and right after a
\* serialize_in call that returned true, no other call having been made since.
C3_SkippableAfterLoad ==
  Returned => /\ call = "ctor" => m_is_skippable_in_ser
              /\ (call = "serialize_in" /\ ret) => m_is_skippable_in_ser

\* C4: no step of serialize_in, serialize_out, imgui_widget, add_listener or
\* remove_listener (nor of serialize_in_impl called by itself) takes the flag
\* from false to true, so after any sequence of these calls a flag that was
\* false is still false.  (An assignment from another property is not one
\* of them: it copies that property's flag.)
C4_Monotone ==
  [][call' # "operator=" => (~m_is_skippable_in_ser => ~m_is_skippable_in_ser')]_vars

C4_Witness ==
  ~m_is_skippable_in_ser /\ call = "serialize_in" /\ ok /\ pc = "post_loop"

\* C5: two consecutive serialize_out calls on fault-free streams write the
\* same bytes, and a serialize_out call changes nothing of the property and
\* delivers no event.
C5_SerializeOutPure ==
  [][(Returned /\ pc' = "idle" /\ call' = "serialize_out") =>
       /\ UNCHANGED <<m_property_kind, m_ctypename, m_data, m_is_skippable_in_ser,
                      m_listeners, delivered, observed>>
       /\ (call = "serialize_out" /\ out.clean /\ out'.clean)
            => out'.os.buf = out.os.buf]_vars

C5_Witness ==
  /\ Returned /\ call = "serialize_out" /\ out.n = 2 /\ out.clean
  /\ Len(out.os.buf) = 2
  /\ m_listeners # {}

\* C6: a failed or short write makes serialize_out return false, and a
\* faulty input stream makes serialize_in return false.
C6_FaultsSurface ==
  Returned => /\ (call = "serialize_out" /\ ~out.clean) => ret = FALSE
              /\ (call = "serialize_in" /\ ~FaultFree(inp)) => ret = FALSE

\* C7: every serialize_in call, successful or not, has called each listener
\* registered when it posted exactly once by the time it returns (and nobody
\* else, and nobody before serialize_in_impl finished), and returns what
\* serialize_in_impl returned.
C7_PostsOnce ==
  call = "serialize_in" =>
    /\ \A l \in Listeners : delivered[l] <= 1
    /\ pc = "post_begin" => delivered = NoneDelivered
    /\ Returned => /\ \A l \in Listeners :
                        delivered[l] = IF l \in registered THEN 1 ELSE 0
                   /\ ret = ok
                   /\ ok = good(is)

C7_Witness ==
  /\ Returned /\ call = "serialize_in" /\ ~ret
  /\ registered = Listeners
  /\ \A l \in Listeners : delivered[l] = 1

\* C8: on a fault-free stream of length n at position p, serialize_in stores
\* exactly the bytes p..n-1, leaves the stream at n and returns true.
C8_ConsumesRest ==
  (sinceLoad \in {"loading", "loaded"} /\ FaultFree(inp)) =>
    /\ m_data = Remaining(inp)
    /\ is.buf = inp.buf
    /\ is.pos = Len(inp.buf)
    /\ good(is)
    /\ call = "serialize_in" => ok
    /\ (Returned /\ call = "serialize_in") => ret

C8_Witness ==
  /\ Returned /\ call = "serialize_in" /\ FaultFree(inp)
  /\ Len(inp.buf) = 2 /\ inp.pos = 1
  /\ m_data = <<inp.buf[2]>>

\* C9: add_listener and remove_listener change nothing but the listener set
\* and deliver no event.
C9_ListenerOpsFrame ==
  [][(Returned /\ pc' = "idle" /\ call' \in {"add_listener", "remove_listener"}) =>
       UNCHANGED <<m_property_kind, m_ctypename, m_data, m_is_skippable_in_ser,
                   delivered, observed>>]_vars

C9_Witness ==
  /\ Returned /\ call = "add_listener"
  /\ m_listeners = Listeners
  /\ m_is_skippable_in_ser
  /\ \A l \in Listeners : delivered[l] = 0

\* C10: when a call that mutates the property returns and no callback
\* changed the listener set, the listeners added and not removed since have
\* each been called exactly once, and no other listener has been called.
C10_DeliveredToSubscribed ==
  (Returned /\ PayloadWritten /\ ~cbChanged) =>
    \A l \in Listeners : delivered[l] = IF l \in subscribed THEN 1 ELSE 0

\* C11: imgui_widget posts data_modified (and so clears the flag) exactly
\* when imgui_widget_impl returned true, and returns that value; and on a
\* CUnknownProperty imgui_widget_impl never reports a modification, so an
\* imgui_widget call notifies no listener and returns false.
C11_WidgetNeverModifiesUnknown ==
  call = "imgui_widget" =>
    /\ Returned => ret = ok
    /\ (Returned /\ ok) =>
         /\ ~m_is_skippable_in_ser
         /\ \A l \in Listeners : delivered[l] = IF l \in registered THEN 1 ELSE 0
    /\ ~ok => (Returned /\ delivered = NoneDelivered)
    /\ ~ok

\* C12: the listeners called for one event are exactly those registered
\* when post_cproperty_event started, whatever the callbacks add or remove
\* meanwhile: a listener removed by an earlier callback is still called, one
\* added by a callback is not, and the next event goes to the changed set.
C12_SnapshotNotified ==
  /\ (Returned /\ Mutated) =>
       \A l \in Listeners : delivered[l] = IF l \in registered THEN 1 ELSE 0
  /\ (pc = "post_begin" /\ Mutated) => registered = subscribed
  /\ pc = "post_loop" => listeners = registered
  /\ m_listeners = subscribed

C12_Witness ==
  /\ Returned /\ Mutated /\ calledRemoved
  /\ \E l \in registered : l \notin subscribed /\ delivered[l] = 1

\* C13: for every offset and every count other than integer_type(-1): when
\* is_valid_subrange(offset, count) is true, subrange(offset, count) begins at
\* beg() + offset, has size count and lies inside the range; when it is
\* false, subrange returns the empty default range.
C13_SubrangeHasCount ==
  (rq.step = "sliced" /\ rq.count # Sentinel) =>
    IF rq.valid
    THEN /\ rq.sub.beg = Wrap(rq.beg + rq.offset)
         /\ size(rq.sub) = rq.count
         /\ rq.beg <= rq.sub.beg /\ rq.sub.beg <= rq.sub.end /\ rq.sub.end <= rq.end
    ELSE rq.sub = range_default

====
